---- MODULE Spec2Model ----
(***************************************************************************)
(* Model of ResumeModifier (src/Resume.py): segmentation of a LaTeX resume *)
(* into intro and sections, per-section tailoring through an external      *)
(* model, reassembly into outdir/<company>_resume.tex, latexmk build and   *)
(* clean.                                                                  *)
(*                                                                         *)
(* A text is a sequence of lexical tokens.  The three markers the code     *)
(* searches for all start with a backslash and contain no other one, so    *)
(* they can neither overlap nor be created by concatenation; each is one   *)
(* token.  "*" is kept apart because the section pattern looks at it, "\n" *)
(* stands for the whitespace str.strip() removes, "x" for any other text.  *)
(***************************************************************************)
EXTENDS Integers, Sequences, FiniteSets, TLC

VARIABLES resume_path, resume_content, job_description, outfile,
          intro, sections, tailored_sections,
          files, pc, called, err,
          tailored, responses, editCalls,
          preamble, end_document, buildCalls, cleanCalls

vars == <<resume_path, resume_content, job_description, outfile,
          intro, sections, tailored_sections,
          files, pc, called, err,
          tailored, responses, editCalls,
          preamble, end_document, buildCalls, cleanCalls>>

\* ---------------------------------------------------------------- bounds
MaxLen == 5

\* ---------------------------------------------------------------- tokens
BeginDoc == "\\begin{document}"
EndDoc == "\\end{document}"
Section == "\\section"
Star == "*"
NL == "\n"
Other == "x"

Alphabet == {BeginDoc, EndDoc, Section, Star, NL, Other}
Whitespace == {NL}

Texts == UNION {[1..n -> Alphabet] : n \in 0..MaxLen}

\* Python None for a str attribute, for a list attribute, for a path
NoneStr == <<"None">>
NoneList == <<NoneStr>>
NonePath == "None"
NoFile == <<"ENOENT">>

\* ------------------------------------------------------- str primitives
\* str.find(t) from position p (1-based), 0 when absent
RECURSIVE Find(_, _, _)
Find(s, t, p) ==
  IF p > Len(s) THEN 0
  ELSE IF s[p] = t THEN p
  ELSE Find(s, t, p + 1)

\* str.rfind(t) scanning down from position p, 0 when absent
RECURSIVE RFind(_, _, _)
RFind(s, t, p) ==
  IF p < 1 THEN 0
  ELSE IF s[p] = t THEN p
  ELSE RFind(s, t, p - 1)

\* s.split(t, 1): one or two parts
SplitOnce(s, t) ==
  LET i == Find(s, t, 1) IN
  IF i = 0 THEN <<s>>
  ELSE <<SubSeq(s, 1, i - 1), SubSeq(s, i + 1, Len(s))>>

\* s.partition(t): (head, sep, tail); (s, "", "") when t is absent
Partition(s, t) ==
  LET i == Find(s, t, 1) IN
  IF i = 0 THEN <<s, <<>>, <<>>>>
  ELSE <<SubSeq(s, 1, i - 1), <<t>>, SubSeq(s, i + 1, Len(s))>>

\* s.rpartition(t): (head, sep, tail); ("", "", s) when t is absent
RPartition(s, t) ==
  LET i == RFind(s, t, Len(s)) IN
  IF i = 0 THEN <<<<>>, <<>>, s>>
  ELSE <<SubSeq(s, 1, i - 1), <<t>>, SubSeq(s, i + 1, Len(s))>>

RECURSIVE LStrip(_)
LStrip(s) ==
  IF s # <<>> /\ Head(s) \in Whitespace THEN LStrip(Tail(s)) ELSE s

RECURSIVE RStrip(_)
RStrip(s) ==
  IF s # <<>> /\ s[Len(s)] \in Whitespace
  THEN RStrip(SubSeq(s, 1, Len(s) - 1)) ELSE s

StripLeftOnly(s) == LStrip(s)

\* str.strip()
Strip(s) == RStrip(LStrip(s))

\* sep.join(list)
RECURSIVE Join(_, _)
Join(list, sep) ==
  IF list = <<>> THEN <<>>
  ELSE IF Len(list) = 1 THEN list[1]
  ELSE list[1] \o sep \o Join(Tail(list), sep)

\* ------------------------------------------------------- re primitives
\* re.search(r"\\section\*?|\\section", body).start(), 0 when no match
ReSearch(body) == Find(body, Section, 1)

\* re.split on the consuming pattern \\section instead of the lookahead
RECURSIVE SplitConsuming(_, _, _)
SplitConsuming(s, last, p) ==
  IF p > Len(s) THEN <<SubSeq(s, last, Len(s))>>
  ELSE IF s[p] = Section
       THEN <<SubSeq(s, last, p - 1)>> \o SplitConsuming(s, p + 1, p + 1)
       ELSE SplitConsuming(s, last, p + 1)

\* re.split(r"(?=\\section\*?|\\section)", s): the lookahead matches the
\* empty string before every \section, so the text is cut there and the
\* marker stays with what follows; a match at position 0 gives a leading ""
RECURSIVE SplitLookahead(_, _, _)
SplitLookahead(s, last, p) ==
  IF p > Len(s) THEN <<SubSeq(s, last, Len(s))>>
  ELSE IF s[p] = Section
       THEN <<SubSeq(s, last, p - 1)>> \o SplitLookahead(s, p, p + 1)
       ELSE SplitLookahead(s, last, p + 1)

ReSplitConsuming(s) == SplitConsuming(s, 1, 1)

ReSplit(s) == SplitLookahead(s, 1, 1)

\* [sec.strip() for sec in sections if sec.strip()]
RECURSIVE StripNonEmpty(_)
StripNonEmpty(list) ==
  IF list = <<>> THEN <<>>
  ELSE IF Strip(Head(list)) # <<>>
       THEN <<Strip(Head(list))>> \o StripNonEmpty(Tail(list))
       ELSE StripNonEmpty(Tail(list))

\* ------------------------------------------------------------ Segmenter
\* segmentation by the split alone, without the search that raises when
\* the body has no section marker
SegmentNoSectionCheck(content) ==
  LET parts == SplitOnce(content, BeginDoc) IN
  IF Len(parts) < 2
  THEN [error |-> "IndexError", intro |-> NoneStr, sections |-> NoneList]
  ELSE
    LET body == Partition(parts[2], EndDoc)[1]
        pieces == ReSplit(body)
    IN [error |-> "none",
        intro |-> Strip(Head(pieces)),
        sections |-> StripNonEmpty(Tail(pieces))]

\* body of extract_intro_and_sections as a function of the text:
\* [error, intro, sections]
Segment(content) ==
  LET parts == SplitOnce(content, BeginDoc) IN
  IF Len(parts) < 2
  THEN [error |-> "IndexError", intro |-> NoneStr, sections |-> NoneList]
  ELSE
    LET body_start == parts[2]
        body == Partition(body_start, EndDoc)[1]
        match == ReSearch(body)
    IN
    IF match = 0
    THEN [error |-> "ValueError", intro |-> NoneStr, sections |-> NoneList]
    ELSE
      LET sections_text == SubSeq(body, match, Len(body)) IN
      [error |-> "none",
       intro |-> Strip(SubSeq(body, 1, match - 1)),
       sections |-> StripNonEmpty(ReSplit(sections_text))]

\* ------------------------------------------------------------ Assembler
PreambleEmptyIfAbsent(content) ==
  IF Find(content, BeginDoc, 1) = 0 THEN <<>>
  ELSE Partition(content, BeginDoc)[1]

\* preamble, _, _ = self.resume_content.partition("\\begin{document}")
Preamble(content) == Partition(content, BeginDoc)[1]

EndDocumentNoDefault(content) ==
  LET rp == RPartition(content, EndDoc) IN rp[2] \o rp[3]

EndDocumentFirst(content) ==
  LET p == Partition(content, EndDoc) IN
  IF p[2] # <<>> THEN p[2] \o p[3] ELSE <<EndDoc>>

\* _, sep, end = rpartition("\\end{document}"); sep + end if sep else literal
EndDocument(content) ==
  LET rp == RPartition(content, EndDoc) IN
  IF rp[2] # <<>> THEN rp[2] \o rp[3] ELSE <<EndDoc>>

NewContent(pre, intr, secs, endd) ==
  pre \o <<BeginDoc, NL, NL>> \o intr \o <<NL, NL>>
      \o Join(secs, <<NL, NL>>) \o <<NL, NL>> \o endd

\* ----------------------------------------------------------- environment
\* self.outfile = Path(outdir) / f"{company_name}_resume.tex"
OutfilePath(outdir, company_name) == outdir \o "/" \o company_name \o "_resume.tex"

JobTxt == "job_description.txt"
ResumePaths == {"cv.tex", OutfilePath("out", "acme")}
Paths == ResumePaths \cup {JobTxt, "jd.txt"}

\* what ollama.generate may hand back: a dict with or without "response"
EditTexts == {<<>>, <<Section, Star, Other>>}
Responses == {[done |-> TRUE]} \cup {[response |-> t] : t \in EditTexts}

\* dict.get(key, default)
DictGet(d, key, default) == IF key \in DOMAIN d THEN d[key] ELSE default

\* ----------------------------------------------------------------- Init
\* __init__: attributes unset, resume read from resume_path, outfile set
\* only when both outdir and company_name are given, job description read
\* when a path is given.  ./job_description.txt, which only tailoring opens,
\* may or may not exist.
Init ==
  /\ resume_content \in Texts
  /\ job_description \in {NonePath, "jd.txt"}
  /\ outfile \in {NonePath, OutfilePath("out", "acme")}
  /\ resume_path \in IF outfile = NonePath THEN {"cv.tex"} ELSE ResumePaths
  /\ \E jobtxt \in IF job_description = NonePath THEN {FALSE} ELSE BOOLEAN :
       files = [p \in Paths |->
                  IF p = resume_path THEN resume_content
                  ELSE IF p = "jd.txt" /\ job_description = "jd.txt" THEN <<Other>>
                  ELSE IF p = JobTxt /\ jobtxt THEN <<Other>>
                  ELSE NoFile]
  /\ intro = NoneStr
  /\ sections = NoneList
  /\ tailored_sections = NoneList
  /\ pc = "start"
  /\ called = "none"
  /\ err = "none"
  /\ tailored = <<>>
  /\ responses = <<>>
  /\ editCalls = 0
  /\ preamble = NoneStr
  /\ end_document = NoneStr
  /\ buildCalls = 0
  /\ cleanCalls = 0

Raise(e) == pc' = "raised" /\ err' = e

\* modify_resume, first step: extract_intro_and_sections, then the branch
\* on self.job_description
ExtractIntroAndSections ==
  /\ pc = "start"
  /\ called' = "modify_resume"
  /\ LET r == Segment(resume_content) IN
     IF r.error # "none"
     THEN /\ Raise(r.error)
          /\ UNCHANGED <<intro, sections>>
     ELSE /\ intro' = r.intro
          /\ sections' = r.sections
          /\ err' = err
          /\ pc' = IF job_description # NonePath THEN "tailor" ELSE "assemble"
  /\ UNCHANGED <<resume_path, resume_content, job_description, outfile,
                 tailored_sections, files, tailored, responses, editCalls,
                 preamble, end_document, buildCalls, cleanCalls>>

\* tailor_sections_with_model up to the loop: open("job_description.txt")
TailorOpen ==
  /\ pc = "tailor"
  /\ IF files[JobTxt] = NoFile
     THEN Raise("FileNotFoundError")
     ELSE pc' = "loop" /\ err' = err
  /\ tailored' = <<>>
  /\ UNCHANGED <<resume_path, resume_content, job_description, outfile,
                 intro, sections, tailored_sections, files, called,
                 responses, editCalls, preamble, end_document,
                 buildCalls, cleanCalls>>

\* one iteration of the loop whose ollama.generate call raises
TailorCallRaises ==
  /\ pc = "loop"
  /\ editCalls' = editCalls + 1
  /\ Raise("ResponseError")
  /\ UNCHANGED <<resume_path, resume_content, job_description, outfile,
                 intro, sections, tailored_sections, files, called,
                 tailored, responses, preamble, end_document,
                 buildCalls, cleanCalls>>

TailorStepReversed(response) ==
  LET sec == sections[Len(tailored) + 1]
      edited_sec == DictGet(response, "response", sec)
      new == <<edited_sec>> \o tailored
  IN
  /\ tailored' = new
  /\ IF Len(new) = Len(sections)
     THEN tailored_sections' = new /\ pc' = "assemble"
     ELSE tailored_sections' = tailored_sections /\ pc' = "loop"

\* one iteration of the loop: edited_sec = response.get("response", sec),
\* appended; after the last one self.tailored_sections is assigned
TailorStep(response) ==
  LET sec == sections[Len(tailored) + 1]
      edited_sec == DictGet(response, "response", sec)
      new == Append(tailored, edited_sec)
  IN
  /\ tailored' = new
  /\ IF Len(new) = Len(sections)
     THEN tailored_sections' = new /\ pc' = "assemble"
     ELSE tailored_sections' = tailored_sections /\ pc' = "loop"

TailorCall ==
  /\ pc = "loop"
  /\ \E response \in Responses :
       /\ responses' = Append(responses, response)
       /\ TailorStep(response)
  /\ editCalls' = editCalls + 1
  /\ UNCHANGED <<resume_path, resume_content, job_description, outfile,
                 intro, sections, files, called, err,
                 preamble, end_document, buildCalls, cleanCalls>>

\* assemble_resume up to the write; also callable on a fresh object, where
\* self.intro is still None and the concatenation raises TypeError
AssembleResume ==
  /\ pc \in {"start", "assemble"}
  /\ called' = IF pc = "start" THEN "assemble_resume" ELSE called
  /\ LET ts == IF tailored_sections = NoneList THEN sections
               ELSE tailored_sections
         pre == Preamble(resume_content)
         endd == EndDocument(resume_content)
     IN
     /\ tailored_sections' = ts
     /\ preamble' = pre
     /\ end_document' = endd
     /\ IF intro = NoneStr \/ ts = NoneList \/ outfile = NonePath
        THEN /\ Raise("TypeError")
             /\ files' = files
        ELSE /\ files' = [files EXCEPT ![outfile] = NewContent(pre, intro, ts, endd)]
             /\ pc' = "build"
             /\ err' = err
  /\ UNCHANGED <<resume_path, resume_content, job_description, outfile,
                 intro, sections, tailored, responses, editCalls,
                 buildCalls, cleanCalls>>

BuildIgnoringStatus(ok) ==
  /\ pc' = "clean"
  /\ err' = IF ok THEN err ELSE "CalledProcessError"

\* subprocess.run(["latexmk", "-cd", "-pdf", outfile], check=True)
BuildResult(ok) ==
  IF ok THEN pc' = "clean" /\ err' = err
  ELSE Raise("CalledProcessError")

Build ==
  /\ pc = "build"
  /\ buildCalls' = buildCalls + 1
  /\ \E ok \in BOOLEAN : BuildResult(ok)
  /\ UNCHANGED <<resume_path, resume_content, job_description, outfile,
                 intro, sections, tailored_sections, files, called,
                 tailored, responses, editCalls, preamble, end_document,
                 cleanCalls>>

\* _clean: subprocess.run(["latexmk", "-cd", "-c", outfile], check=True)
Clean ==
  /\ pc = "clean"
  /\ cleanCalls' = cleanCalls + 1
  /\ \E ok \in BOOLEAN :
       IF ok THEN pc' = "done" /\ err' = err
       ELSE Raise("CalledProcessError")
  /\ UNCHANGED <<resume_path, resume_content, job_description, outfile,
                 intro, sections, tailored_sections, files, called,
                 tailored, responses, editCalls, preamble, end_document,
                 buildCalls>>

Next ==
  \/ ExtractIntroAndSections
  \/ TailorOpen
  \/ TailorCallRaises
  \/ TailorCall
  \/ AssembleResume
  \/ Build
  \/ Clean

Spec == Init /\ [][Next]_vars

\* =====================================================================
\* Vocabulary of the properties, stated by position rather than by the
\* scanning the code does
\* =====================================================================
Positions(t, tok) == {i \in 1..Len(t) : t[i] = tok}

SetMin(S) == CHOOSE m \in S : \A n \in S : m <= n
SetMax(S) == CHOOSE m \in S : \A n \in S : m >= n

HasBegin(t) == Positions(t, BeginDoc) # {}

\* the text before the first \begin{document}: the longest prefix free of it
TextBeforeBegin(t) ==
  IF HasBegin(t) THEN SubSeq(t, 1, SetMin(Positions(t, BeginDoc)) - 1) ELSE t

\* text between the first \begin{document} and the first \end{document}
\* after it (or the end of the text)
BodyOf(t) ==
  LET b == SetMin(Positions(t, BeginDoc))
      ends == {i \in Positions(t, EndDoc) : i > b}
      e == IF ends = {} THEN Len(t) + 1 ELSE SetMin(ends)
  IN SubSeq(t, b + 1, e - 1)

\* the last \end{document} with everything after it, or the literal marker
LastEndMarker(t) ==
  IF Positions(t, EndDoc) = {} THEN <<EndDoc>>
  ELSE SubSeq(t, SetMax(Positions(t, EndDoc)), Len(t))

\* s without its leading and trailing whitespace
Trim(s) ==
  LET solid == {i \in 1..Len(s) : s[i] \notin Whitespace} IN
  IF solid = {} THEN <<>> ELSE SubSeq(s, SetMin(solid), SetMax(solid))

\* position of the i-th section marker of a text
NthMarker(t, i) ==
  CHOOSE p \in Positions(t, Section) :
    Cardinality({q \in Positions(t, Section) : q <= p}) = i

\* the text from the i-th marker up to the next marker or the end
Chunk(t, i) ==
  LET k == Cardinality(Positions(t, Section))
      from == NthMarker(t, i)
      to == IF i < k THEN NthMarker(t, i + 1) - 1 ELSE Len(t)
  IN SubSeq(t, from, to)

RECURSIVE JoinedBy(_, _)
JoinedBy(list, sep) ==
  IF Len(list) = 0 THEN <<>>
  ELSE IF Len(list) = 1 THEN list[1]
  ELSE JoinedBy(SubSeq(list, 1, Len(list) - 1), sep) \o sep \o list[Len(list)]

\* the output file has been written by assemble_resume
Written == pc \in {"build", "clean", "done"} \/ (pc = "raised" /\ buildCalls > 0)

Segmentable(t) == HasBegin(t) /\ Positions(BodyOf(t), Section) # {}

FilesUntouched ==
  /\ files[resume_path] = resume_content
  /\ \A p \in Paths \ {resume_path} : files[p] \in {NoFile, <<Other>>}

\* ---------------------------------------------------------------- C1
\* C1: once the output is written with the sections unmodified, segmenting
\* the output again gives the intro and the ordered sections of the
\* original, and the text before the first \begin{document} is the same;
\* also with several \end{document} or one before \begin{document}.
Thm_C1 ==
  (Written /\ tailored_sections = sections) =>
    LET out == files[outfile]
        again == Segment(out)
    IN /\ Segmentable(resume_content)
       /\ again.error = "none"
       /\ again.intro = intro
       /\ again.sections = sections
       /\ TextBeforeBegin(out) = TextBeforeBegin(resume_content)

Wit_C1 ==
  /\ Written
  /\ tailored_sections = sections
  /\ Cardinality(Positions(resume_content, EndDoc)) >= 2
  /\ SetMin(Positions(resume_content, EndDoc))
       < SetMin(Positions(resume_content, BeginDoc))

\* ---------------------------------------------------------------- C2
\* C2: a body with k >= 1 markers gives exactly k non-empty sections, the
\* i-th being the trimmed text from the i-th marker to the next marker or
\* the body end; each begins with the marker, and a "*" after a marker
\* stays with that marker.
Thm_C2 ==
  (called = "modify_resume" /\ Segmentable(resume_content)) =>
    LET body == BodyOf(resume_content)
        k == Cardinality(Positions(body, Section))
    IN /\ sections # NoneList
       /\ Len(sections) = k
       /\ \A i \in 1..k :
            /\ sections[i] = Trim(Chunk(body, i))
            /\ sections[i] # <<>>
            /\ sections[i][1] = Section
            /\ (NthMarker(body, i) < Len(body)
                  /\ body[NthMarker(body, i) + 1] = Star)
                 => (Len(sections[i]) >= 2 /\ sections[i][2] = Star)

Wit_C2 ==
  /\ called = "modify_resume"
  /\ sections # NoneList
  /\ Len(sections) >= 2
  /\ \E i \in 1..Len(sections) : sections[i] = <<Section>>
  /\ \E i \in 1..Len(sections) : sections[i] = <<Section, Star>>

\* ---------------------------------------------------------------- C3
\* C3: when the text has no \begin{document}, or none of its body holds a
\* section marker, modify_resume stops in extract_intro_and_sections (with
\* ValueError in the second case); no edit call, no write, no latexmk call
\* happens and intro and sections stay unset.
Thm_C3 ==
  (called = "modify_resume" /\ ~Segmentable(resume_content)) =>
    /\ pc = "raised"
    /\ err = IF HasBegin(resume_content) THEN "ValueError" ELSE "IndexError"
    /\ editCalls = 0 /\ responses = <<>>
    /\ FilesUntouched
    /\ buildCalls = 0 /\ cleanCalls = 0
    /\ intro = NoneStr /\ sections = NoneList /\ tailored_sections = NoneList

Wit_C3 ==
  /\ called = "modify_resume"
  /\ err = "ValueError"
  /\ HasBegin(resume_content)
  /\ Positions(resume_content, Section) # {}
  /\ outfile # NonePath
  /\ job_description # NonePath

\* ---------------------------------------------------------------- C4
\* C4: an edit call that raises or hands back an empty or invalid result
\* makes the original section stand at that position and the loop go on,
\* so a failing section never keeps the pipeline from assembly.
CE_C4 ==
  /\ ~(pc = "raised" /\ err = "ResponseError")
  /\ \A i \in 1..Len(tailored) :
       ("response" \notin DOMAIN responses[i] \/ responses[i].response = <<>>)
         => tailored[i] = sections[i]

\* ---------------------------------------------------------------- C5
\* C5: the output path differs from resume_path, so the source file keeps
\* the content read at construction whatever is run.
CE_C5 == files[resume_path] = resume_content

Thm_C7 ==
  /\ [](buildCalls > 0 =>
          /\ outfile # NonePath
          /\ files[outfile] = NewContent(preamble, intro, tailored_sections, end_document))
  /\ [][pc = "build" =>
          /\ files' = files
          /\ buildCalls = 0
          /\ files[outfile] = NewContent(preamble, intro, tailored_sections, end_document)
          /\ err' = "CalledProcessError" => (pc' = "raised" /\ cleanCalls' = 0)]_vars
  /\ [](err = "CalledProcessError" => pc = "raised")
  /\ [][pc = "raised" => FALSE]_vars

Wit_C7 ==
  /\ pc = "raised"
  /\ err = "CalledProcessError"
  /\ buildCalls = 1
  /\ cleanCalls = 0
  /\ files[outfile] # NoFile
  /\ files[outfile] # resume_content

\* ---------------------------------------------------------------- C8
\* C8: the written text is preamble + \begin{document}\n\n + intro + \n\n
\* + sections joined by \n\n + \n\n + end marker, the preamble being the
\* text before the first \begin{document} and the end marker the LAST
\* \end{document} with what follows it (the literal when there is none).
Thm_C8 ==
  Written =>
    files[outfile] =
      TextBeforeBegin(resume_content) \o <<BeginDoc, NL, NL>> \o intro
        \o <<NL, NL>> \o JoinedBy(tailored_sections, <<NL, NL>>)
        \o <<NL, NL>> \o LastEndMarker(resume_content)

Wit_C8 ==
  /\ Written
  /\ Cardinality(Positions(resume_content, EndDoc)) >= 2
  /\ Len(LastEndMarker(resume_content)) >= 2
  /\ Len(tailored_sections) >= 2
  /\ tailored_sections # sections

\* ---------------------------------------------------------------- C9
\* C9: after tailoring, tailored_sections has one element per section, the
\* i-th being the edit result for the i-th section; without a job
\* description no edit call is made and the extracted sections are used;
\* the output holds the sections in that order after the unedited intro.
EditResult(response, sec) ==
  IF "response" \in DOMAIN response THEN response.response ELSE sec

RECURSIVE LenUpTo(_, _)
LenUpTo(list, i) ==
  IF i = 0 THEN 0 ELSE LenUpTo(list, i - 1) + Len(list[i]) + 2

Thm_C9 ==
  /\ (called = "modify_resume" /\ job_description # NonePath
        /\ pc \in {"assemble", "build", "clean", "done"}) =>
       /\ Len(tailored_sections) = Len(sections)
       /\ Len(responses) = Len(sections)
       /\ \A i \in 1..Len(sections) :
            tailored_sections[i] = EditResult(responses[i], sections[i])
  /\ (job_description = NonePath /\ Written) =>
       (tailored_sections = sections /\ editCalls = 0)
  /\ Written =>
       LET out == files[outfile]
           body == BodyOf(resume_content)
           at == Len(TextBeforeBegin(resume_content)) + 3
           sat == at + Len(intro) + 2
       IN /\ intro = Trim(SubSeq(body, 1, SetMin(Positions(body, Section)) - 1))
          /\ SubSeq(out, at + 1, at + Len(intro)) = intro
          /\ \A i \in 1..Len(tailored_sections) :
               SubSeq(out, sat + LenUpTo(tailored_sections, i - 1) + 1,
                      sat + LenUpTo(tailored_sections, i - 1)
                          + Len(tailored_sections[i]))
                 = tailored_sections[i]

Wit_C9 ==
  /\ Written
  /\ job_description # NonePath
  /\ Len(sections) >= 2
  /\ "response" \in DOMAIN responses[1]
  /\ "response" \notin DOMAIN responses[2]
  /\ tailored_sections[1] # tailored_sections[2]
  /\ tailored_sections[1] # sections[1]

\* ---------------------------------------------------------------- C10
\* C10 as stated: without \begin{document} in the text the preamble
\* computed by assemble_resume is the empty string.
CE_C10 ==
  (preamble # NoneStr /\ ~HasBegin(resume_content)) => preamble = <<>>

\* C10 amended: without \begin{document} in the text the preamble computed
\* by assemble_resume is the whole text, so all of it is placed before the
\* \begin{document} the assembler emits.
Thm_C10 ==
  (preamble # NoneStr /\ ~HasBegin(resume_content)) =>
    /\ preamble = resume_content
    /\ NewContent(preamble, <<>>, <<>>, end_document)
         = resume_content \o <<BeginDoc, NL, NL, NL, NL, NL, NL>>
             \o LastEndMarker(resume_content)

Wit_C10 ==
  /\ called = "assemble_resume"
  /\ ~HasBegin(resume_content)
  /\ preamble = resume_content
  /\ Len(resume_content) >= 2
  /\ Positions(resume_content, Section) # {}
====
